---- MODULE Spec2Model ----
(***************************************************************************)
(* A model of ExtractDat3.py: the dat-file reader (DatFile, DatFileIterator, *)
(* Scan, ScanIterator, Mass) and the traversal that main() makes of one     *)
(* dat file.                                                                *)
(*                                                                          *)
(* A file is its sequence of bytes.  Python offsets count from 0, TLA+      *)
(* sequences from 1: the byte at offset p is file[p + 1].  A file object    *)
(* returned by open() is an entry of `handles` (open or closed, with its    *)
(* position); the value None is the empty tuple and a value v that may be   *)
(* None is <<v>>.  Exceptions are named by their Python class.              *)
(***************************************************************************)
EXTENDS Integers, Sequences, FiniteSets, TLC

VARIABLES
    input,     \* the streams of the scans the dat file was written from
    file,      \* the bytes of the dat file at DatFile.path
    dat,       \* the DatFile object
    handles,   \* the file objects open() has returned so far, by identity
    scans,     \* the Scan objects created so far (immutable: kept by value)
    iters,     \* the ScanIterator objects created so far
    dits,      \* the DatFileIterator objects created so far
    dec,       \* the Mass being constructed (the decode run), or the last one
    result,    \* what the last call returned or raised
    mpc,       \* "user": calls come in any order; else main()'s position
    calls      \* the number of calls made so far

vars == <<input, file, dat, handles, scans, iters, dits, dec, result, mpc, calls>>

----------------------------------------------------------------------------
(* Constants of the program *)

HDR_INDEX_OFFSET == 33
HDR_INDEX_LEN == 39
HDR_TIMESTAMP == 40
SCAN_NUMBER == 9
SCAN_DELTA == 7
SCAN_ACF == 12
SCAN_TIME == 19
SCAN_FCF == 35
SCAN_EDAC == 31

KEY_EOS == 15
KEY_EOM == 8
KEY_BSCAN == 12
KEY_B == 11
KEY_VOLT == 4
KEY_TIME == 3
KEY_MASS == 2
KEY_DATA == 1

DATA_ANALOG == 0
DATA_PULSE == 1
DATA_FARADAY == 8

HdrStart == 16
HdrFields == 85
ScanFields == 47
WordSize == 4
FracBits == 18

None == <<>>
Some(v) == <<v>>

----------------------------------------------------------------------------
(* Bounds *)

\* The calls a user makes on one DatFile.
MaxCalls == 8
\* The words of a scan's stream in the files main() is run on.
MaxWords == 3
\* The scans of a file.
MaxScans == 2
\* How many times a caller calls next() again after it did not return a Mass.
MaxRetries == 2

----------------------------------------------------------------------------
(* Bytes, words and reads *)

Min(a, b) == IF a <= b THEN a ELSE b

Pow2(n) == 2 ^ n

\* fd.read(n) at position pos: the bytes there, fewer than n at the end of
\* the file, none beyond it.
Read(f, pos, n) == SubSeq(f, pos + 1, Min(pos + n, Len(f)))

\* struct.unpack("<I", b)[0] for four bytes b (values below 2^31 here).
Unpack(b) == b[1] + 256 * b[2] + 65536 * b[3] + 16777216 * b[4]

\* (tmp & 0xF0000000) >> 28 of the little-endian word b: the high nibble of
\* its last byte.
Key(b) == b[4] \div 16

\* tmp & 0x0FFFFFFF of the little-endian word b.
Value(b) == b[1] + 256 * b[2] + 65536 * b[3] + 16777216 * (b[4] % 16)

\* The sub-fields of a DATA payload.
Flag(value) == (value \div Pow2(24)) % 16
DataType(value) == (value \div Pow2(20)) % 16
Exp(value) == (value \div Pow2(16)) % 16
Magnitude(value) == value % Pow2(16)

\* Signed with the sign taken from the lowest bit of the flag alone.
SignedLowBit(flag, exp, magnitude) ==
    LET v == magnitude * Pow2(exp)
    IN  IF flag % 2 = 1 THEN 0 - v ELSE v

\* value << exp, negated when the flag is non-zero.
Signed(flag, exp, magnitude) ==
    LET v == magnitude * Pow2(exp)
    IN  IF flag # 0 THEN 0 - v ELSE v

\* struct.unpack of n little-endian fields from the bytes b (4n bytes).
Fields(b, n) == [i \in 0..(n - 1) |-> Unpack(SubSeq(b, 4 * i + 1, 4 * i + 4))]

----------------------------------------------------------------------------
(* Input files.  A dat file is laid out as its format says: 16 bytes, the   *)
(* 85-field header, the offset table at indexOffset + 4, then for each scan *)
(* the 47-field scan header followed by the scan's tagged words.            *)

LE32(n) == <<n % 256, (n \div 256) % 256, (n \div 65536) % 256, n \div 16777216>>

\* The four bytes of the tagged word with this key and 28-bit payload.
Word(key, value) ==
    <<value % 256, (value \div 256) % 256, (value \div 65536) % 256,
      16 * key + value \div 16777216>>

\* The payload of a DATA word.
Data(flag, dataType, exp, magnitude) ==
    Pow2(24) * flag + Pow2(20) * dataType + Pow2(16) * exp + magnitude

\* The bytes of a sequence of 32-bit fields, little-endian.
Bytes(fields) ==
    [p \in 1..(4 * Len(fields)) |-> LE32(fields[(p + 3) \div 4])[((p - 1) % 4) + 1]]

\* The bytes of a sequence of tagged words, each a pair <<key, value>>.
WordBytes(ws) ==
    [p \in 1..(4 * Len(ws)) |->
        Word(ws[(p + 3) \div 4][1], ws[(p + 3) \div 4][2])[((p - 1) % 4) + 1]]

Zeros(n) == [i \in 1..n |-> 0]

TableOffset == HdrStart + 4 * HdrFields

FileHeader(n, timestamp) ==
    Zeros(HdrStart) \o
    Bytes([i \in 1..HdrFields |->
        CASE i - 1 = HDR_INDEX_OFFSET -> TableOffset - 4
          [] i - 1 = HDR_INDEX_LEN -> n
          [] i - 1 = HDR_TIMESTAMP -> timestamp
          [] OTHER -> 0])

\* The header of the scan with this number: every field a different value.
ScanHeader(number, edac) ==
    Bytes([i \in 1..ScanFields |->
        CASE i - 1 = SCAN_NUMBER -> number
          [] i - 1 = SCAN_EDAC -> edac
          [] OTHER -> 100 * number + i])

\* The size of the scan whose stream is the words ws.
ScanSize(ws) == 4 * ScanFields + 4 * Len(ws)

RECURSIVE ScanStart(_, _)
\* The offset of the j-th scan of the file whose scans have these streams.
ScanStart(streams, j) ==
    IF j = 1 THEN TableOffset + 4 * Len(streams)
    ELSE ScanStart(streams, j - 1) + ScanSize(streams[j - 1])

FileScans == MaxScans + 1

\* The file header for each number of scans, and the header of each scan:
\* scan j has number 10 + j and EDAC 1000 + j.
FileHeaders == [n \in 0..FileScans |-> FileHeader(n, 1600000000)]
ScanHeaders == [j \in 1..FileScans |-> ScanHeader(10 + j, 1000 + j)]

RECURSIVE ScanBlocks(_, _)
\* The bytes of the scans from the j-th on.
ScanBlocks(streams, j) ==
    IF j > Len(streams) THEN <<>>
    ELSE ScanHeaders[j] \o WordBytes(streams[j]) \o ScanBlocks(streams, j + 1)

\* The file whose scans have these streams.
MakeFile(streams) ==
    FileHeaders[Len(streams)] \o
    Bytes([j \in 1..Len(streams) |-> ScanStart(streams, j)]) \o
    ScanBlocks(streams, 1)

----------------------------------------------------------------------------
(* The objects *)

\* DatFile.__init__: the header and the offset table, read through a handle
\* of their own; fd is None until Open.
DatFile(f) ==
    LET vals == Fields(Read(f, HdrStart, 4 * HdrFields), HdrFields)
        indexLen == vals[HDR_INDEX_LEN]
        indexOffset == vals[HDR_INDEX_OFFSET]
        table == Fields(Read(f, indexOffset + 4, 4 * indexLen), indexLen)
    IN  [fd |-> None,
         timestamp |-> vals[HDR_TIMESTAMP],
         indexLen |-> indexLen,
         indexOffset |-> indexOffset,
         offsets |-> [j \in 1..indexLen |-> table[j - 1]]]

\* The constructor raises struct.error when a read returns fewer bytes than
\* its unpack needs: the header's 85 fields, then the indexLen fields of the
\* offset table.  The seek to the table may land beyond the end of the file;
\* an empty table is then read as no bytes and unpacks to no offsets.
Constructible(f) ==
    /\ Len(Read(f, HdrStart, 4 * HdrFields)) = 4 * HdrFields
    /\ LET vals == Fields(Read(f, HdrStart, 4 * HdrFields), HdrFields)
           indexLen == vals[HDR_INDEX_LEN]
           indexOffset == vals[HDR_INDEX_OFFSET]
       IN  Len(Read(f, indexOffset + 4, 4 * indexLen)) = 4 * indexLen

\* NumScans one short.
NumScansShort == Len(dat.offsets) - 1

\* DatFile.NumScans
NumScans == Len(dat.offsets)

\* _CheckOpen raises NotOpen exactly when this is false.
CheckOpen(fd) == fd # None

\* The values a call leaves in `result`.
NoVal == [t |-> "None"]
ScanVal(s) == [t |-> "Scan", scan |-> s]
MassVal(m) == [t |-> "Mass", mass |-> m]
IterVal(k) == [t |-> "Iter", k |-> k]

\* The call op(arg) ended: it raised exc ("" when it returned) and returned
\* val.  `open` records whether the DatFile was open when it was made.
Res(op, arg, exc, val) ==
    [op |-> op, arg |-> arg, exc |-> exc, val |-> val, open |-> dat.fd # None]

\* StreamOffset without the header skipped.
StreamOffsetNoSkip(offset) == offset

\* self.offset = offset + self.headerSize: where the words of the scan start.
StreamOffset(offset) == offset + 4 * ScanFields

\* Scan.__init__ through the DatFile's handle h: what it raises, the Scan it
\* builds, and where it leaves the handle.
ScanInit(h, offset) ==
    LET size == 4 * ScanFields
        b == Read(file, offset, size)
        vals == Fields(b, ScanFields)
    IN  IF Len(b) < size
        THEN [exc |-> "struct.error", val |-> NoVal, pos |-> offset + Len(b)]
        ELSE [exc |-> "",
              val |-> ScanVal([fd |-> Some(h),
                               hdr |-> offset,
                               number |-> vals[SCAN_NUMBER],
                               delta |-> vals[SCAN_DELTA],
                               acf |-> vals[SCAN_ACF],
                               time |-> vals[SCAN_TIME],
                               fcf |-> vals[SCAN_FCF],
                               edac |-> vals[SCAN_EDAC],
                               offset |-> StreamOffset(offset)]),
              pos |-> offset + size]

\* DatFile.GetScan(index): what it raises or returns and the position it
\* leaves the handle at (None: no seek, no read).  A negative index selects
\* from the end of the offset table, as Python's tuples do.
GetScanCall(index) ==
    IF ~CheckOpen(dat.fd) THEN [exc |-> "NotOpen", val |-> NoVal, pos |-> None]
    ELSE IF index >= NumScans \/ index < 0 - NumScans
    THEN [exc |-> "IndexError", val |-> NoVal, pos |-> None]
    ELSE LET i == IF index < 0 THEN index + NumScans ELSE index
             r == ScanInit(dat.fd[1], dat.offsets[i + 1])
         IN  [exc |-> r.exc, val |-> r.val, pos |-> Some(r.pos)]

\* The state a call of GetScan leaves: the handle moved, the Scan created.
Moved(hs, h, pos) == [hs EXCEPT ![h].pos = pos]

AfterGetScan(r) ==
    /\ handles' = IF r.pos = None THEN handles ELSE Moved(handles, dat.fd[1], r.pos[1])
    /\ scans' = IF r.exc = "" THEN scans \cup {r.val.scan} ELSE scans

\* A Mass whose construction has passed fd.seek(offset) and is about to read
\* its first word; ctx is the call that is constructing it, pos the position
\* of its file object after its last read.
NewMass(scan, h, offset, ctx) ==
    [st |-> "Reading", err |-> "", code |-> None, attr |-> "",
     scan |-> scan, fd |-> h, offset |-> offset,
     magnetMass |-> None, acceleratingVoltage |-> None,
     channelTime |-> None, duration |-> None,
     measurements |-> [analog |-> <<>>, pulse |-> <<>>, faraday |-> <<>>],
     size |-> None, pos |-> offset, ctx |-> ctx]

\* The attributes of a completed Mass that its readers see.
MassOf(m) ==
    [offset |-> m.offset, size |-> m.size[1],
     magnetMass |-> m.magnetMass, acceleratingVoltage |-> m.acceleratingVoltage,
     channelTime |-> m.channelTime, duration |-> m.duration,
     measurements |-> m.measurements]

----------------------------------------------------------------------------
(* Mass.__init__: the decode loop *)

\* raise: the construction ends in Failed.
Raise(m, err, code, attr) ==
    [m EXCEPT !.st = "Failed", !.err = err, !.code = code, !.attr = attr]

\* _SetAttr with the test `if getattr(self, name):`, which takes 0 for unset.
SetAttrTruthy(m, name, value) ==
    IF m[name] # None /\ m[name] # Some(0)
    THEN Raise(m, "Exception", None, name)
    ELSE [m EXCEPT ![name] = Some(value)]

\* Mass._SetAttr: the attribute is set only while it is None.
SetAttr(m, name, value) ==
    IF m[name] # None
    THEN Raise(m, "Exception", None, name)
    ELSE [m EXCEPT ![name] = Some(value)]

\* scan.edac * 1000.0 / value / 2**18, kept as the exact quotient
\* num / den / 2^shift.
Voltage(edac, value) == [num |-> edac * 1000, den |-> value, shift |-> FracBits]

\* value * 1.0 / 2**18, kept as whole + frac / 2^18.
MagnetMass(value) ==
    [whole |-> value \div Pow2(FracBits), frac |-> value % Pow2(FracBits)]

\* Category with faraday tested by its bit (dataType & 0x8) instead of by
\* equality.
CategoryByBit(dataType) ==
    CASE dataType = DATA_ANALOG -> "analog"
      [] dataType = DATA_PULSE -> "pulse"
      [] dataType >= DATA_FARADAY -> "faraday"
      [] OTHER -> ""

\* The measurement sequence a data type belongs to; "" when it has none.
Category(dataType) ==
    CASE dataType = DATA_ANALOG -> "analog"
      [] dataType = DATA_PULSE -> "pulse"
      [] dataType = DATA_FARADAY -> "faraday"
      [] OTHER -> ""

\* The branch of a DATA word.
DataStep(m, value) ==
    LET cat == Category(DataType(value))
    IN  IF cat = ""
        THEN Raise(m, "UnknownDataType", Some(DataType(value)), "")
        ELSE [m EXCEPT !.measurements[cat] =
                 Append(@, Signed(Flag(value), Exp(value), Magnitude(value)))]

\* EomStep with the size taken before the EOM word instead of after it.
EomStepShort(m, value, tell) ==
    LET d == SetAttr(m, "duration", value)
    IN  IF d.st = "Failed" THEN d
        ELSE [d EXCEPT !.size = Some(tell - WordSize - m.offset), !.st = "Completed"]

\* EomStep that completes the Mass without writing duration.
EomStepNoDuration(m, value, tell) ==
    [m EXCEPT !.size = Some(tell - m.offset), !.st = "Completed"]

\* The branch of an EOM word; tell is fd.tell() after the word was read.
EomStep(m, value, tell) ==
    LET d == SetAttr(m, "duration", value)
    IN  IF d.st = "Failed" THEN d
        ELSE [d EXCEPT !.size = Some(tell - m.offset), !.st = "Completed"]

\* The branch of a VOLT word: the division raises on a payload of 0.
VoltStep(m, value) ==
    IF value = 0
    THEN Raise(m, "ZeroDivisionError", None, "")
    ELSE [m EXCEPT !.acceleratingVoltage = Some(Voltage(m.scan.edac, value))]

\* MassStep that passes over a word with an unknown key instead of raising.
MassStepLenient(m, key, value, tell) ==
    CASE key = KEY_EOS -> [m EXCEPT !.st = "EndOfScan"]
      [] key = KEY_EOM -> EomStep(m, value, tell)
      [] key = KEY_VOLT -> VoltStep(m, value)
      [] key = KEY_TIME -> SetAttr(m, "channelTime", value)
      [] key = KEY_MASS -> [m EXCEPT !.magnetMass = Some(MagnetMass(value))]
      [] key = KEY_DATA -> DataStep(m, value)
      [] OTHER -> m

\* MassStep in which a MASS word writes magnetMass only while it is unset.
MassStepFirstMass(m, key, value, tell) ==
    CASE key = KEY_EOS -> [m EXCEPT !.st = "EndOfScan"]
      [] key = KEY_EOM -> EomStep(m, value, tell)
      [] key = KEY_BSCAN -> m
      [] key = KEY_B -> m
      [] key = KEY_VOLT -> VoltStep(m, value)
      [] key = KEY_TIME -> SetAttr(m, "channelTime", value)
      [] key = KEY_MASS -> IF m.magnetMass # None THEN m
                           ELSE [m EXCEPT !.magnetMass = Some(MagnetMass(value))]
      [] key = KEY_DATA -> DataStep(m, value)
      [] OTHER -> Raise(m, "UnknownKey", Some(key), "")

\* MassStep in which a BSCAN word clears channelTime.
MassStepBscanResets(m, key, value, tell) ==
    CASE key = KEY_EOS -> [m EXCEPT !.st = "EndOfScan"]
      [] key = KEY_EOM -> EomStep(m, value, tell)
      [] key = KEY_BSCAN -> [m EXCEPT !.channelTime = None]
      [] key = KEY_B -> m
      [] key = KEY_VOLT -> VoltStep(m, value)
      [] key = KEY_TIME -> SetAttr(m, "channelTime", value)
      [] key = KEY_MASS -> [m EXCEPT !.magnetMass = Some(MagnetMass(value))]
      [] key = KEY_DATA -> DataStep(m, value)
      [] OTHER -> Raise(m, "UnknownKey", Some(key), "")

\* One turn of the loop on the word with this key and payload.
MassStep(m, key, value, tell) ==
    CASE key = KEY_EOS -> [m EXCEPT !.st = "EndOfScan"]
      [] key = KEY_EOM -> EomStep(m, value, tell)
      [] key = KEY_BSCAN -> m
      [] key = KEY_B -> m
      [] key = KEY_VOLT -> VoltStep(m, value)
      [] key = KEY_TIME -> SetAttr(m, "channelTime", value)
      [] key = KEY_MASS -> [m EXCEPT !.magnetMass = Some(MagnetMass(value))]
      [] key = KEY_DATA -> DataStep(m, value)
      [] OTHER -> Raise(m, "UnknownKey", Some(key), "")

\* ReadStep that takes a short read for no word and reads again.
ReadStepSkipShort(m, pos) ==
    LET tmp == Read(file, pos, WordSize)
        tell == pos + Len(tmp)
    IN  [pos |-> tell,
         mass |-> IF Len(tmp) < WordSize
                  THEN m
                  ELSE MassStep(m, Key(tmp), Value(tmp), tell)]

\* One read of a word and the turn of the loop on it; a read of fewer than
\* four bytes makes struct.unpack raise.
ReadStep(m, pos) ==
    LET tmp == Read(file, pos, WordSize)
        tell == pos + Len(tmp)
    IN  [pos |-> tell,
         mass |-> IF Len(tmp) < WordSize
                  THEN Raise(m, "struct.error", None, "")
                  ELSE MassStep(m, Key(tmp), Value(tmp), tell)]

\* What Mass(...) raises or is, once the loop has ended.
MassEnd(m) ==
    [exc |-> CASE m.st = "Failed" -> m.err
               [] m.st = "EndOfScan" -> "EOS"
               [] OTHER -> "",
     val |-> IF m.st = "Completed" THEN MassVal(MassOf(m)) ELSE NoVal]

\* GetMass without its `except EOS`.
GetMassEndNoCatch(r) == r

\* Scan.GetMass: EOS becomes the return value None.
GetMassEnd(r) == IF r.exc = "EOS" THEN [exc |-> "", val |-> NoVal] ELSE r

\* __next__ that ends the iteration on whatever GetMass raised.
NextEndSwallow(r) ==
    IF r.exc # "" \/ r.val.t = "None"
    THEN [exc |-> "StopIteration", val |-> NoVal]
    ELSE r

\* ScanIterator.__next__: None becomes StopIteration.
NextEnd(r) ==
    IF r.exc = "" /\ r.val.t = "None"
    THEN [exc |-> "StopIteration", val |-> NoVal]
    ELSE r

\* What the call that constructs the Mass m raises or returns.
CallEnd(m) ==
    IF m.ctx.op = "GetMass"
    THEN GetMassEnd(MassEnd(m))
    ELSE NextEnd(GetMassEnd(MassEnd(m)))

\* self._offset += mass.size, and the Mass goes to the caller.
Advance(its, k, m) ==
    [its EXCEPT ![k].offset = @ + m.size[1], ![k].yielded = Append(@, MassOf(m))]

\* Ended that moves the cursor over the EOS word at the end of the scan.
EndedSkipEos(its, k, m) ==
    LET a == CASE m.st = "Completed" -> Advance(its, k, m)
               [] m.st = "EndOfScan" -> [its EXCEPT ![k].offset = @ + WordSize]
               [] OTHER -> its
    IN  [a EXCEPT ![k].outcomes = Append(@, CallEnd(m).exc)]

\* The k-th iterator when its __next__ ends with the Mass m constructed or
\* not: the cursor moves only over a Mass that is returned.  What the call
\* raised ("" when it returned) is kept as history.
Ended(its, k, m) ==
    LET a == IF CallEnd(m).exc = "" THEN Advance(its, k, m) ELSE its
    IN  [a EXCEPT ![k].outcomes = Append(@, CallEnd(m).exc)]

\* The loop takes one turn; when it ends, so does the call around it.
ReadWord ==
    /\ dec.st = "Reading"
    /\ LET r == ReadStep(dec, handles[dec.fd].pos)
           m == r.mass
       IN  /\ dec' = [m EXCEPT !.pos = r.pos]
           /\ handles' = Moved(handles, dec.fd, r.pos)
           /\ result' = IF m.st = "Reading" THEN result
                        ELSE [result EXCEPT !.exc = CallEnd(m).exc,
                                            !.val = CallEnd(m).val]
           /\ iters' = IF m.st # "Reading" /\ m.ctx.op = "next"
                       THEN Ended(iters, m.ctx.k, m)
                       ELSE iters
    /\ UNCHANGED <<input, file, dat, scans, dits, mpc, calls>>

\* MassBegin without fd.seek(offset): the loop reads from where the file
\* object was left.
MassBeginNoSeek(scan, fd, offset, op, arg) ==
    IF ~CheckOpen(fd)
    THEN /\ result' = Res(op, arg, "NotOpen", NoVal)
         /\ UNCHANGED <<handles, dec>>
    ELSE IF ~handles[fd[1]].open
    THEN /\ result' = Res(op, arg, "ValueError", NoVal)
         /\ UNCHANGED <<handles, dec>>
    ELSE /\ result' = Res(op, arg, "Pending", NoVal)
         /\ handles' = handles
         /\ dec' = NewMass(scan, fd[1], offset, [op |-> op, k |-> arg])

\* Mass(scan, fd, offset) up to its loop, called by ctx = op(arg): NotOpen
\* on a None fd, ValueError from the seek on a closed file object.
MassBegin(scan, fd, offset, op, arg) ==
    IF ~CheckOpen(fd)
    THEN /\ result' = Res(op, arg, "NotOpen", NoVal)
         /\ UNCHANGED <<handles, dec>>
    ELSE IF ~handles[fd[1]].open
    THEN /\ result' = Res(op, arg, "ValueError", NoVal)
         /\ UNCHANGED <<handles, dec>>
    ELSE /\ result' = Res(op, arg, "Pending", NoVal)
         /\ handles' = Moved(handles, fd[1], offset)
         /\ dec' = NewMass(scan, fd[1], offset, [op |-> op, k |-> arg])

----------------------------------------------------------------------------
(* The methods.  Each is the whole call, except that the construction of a *)
(* Mass is left to ReadWord once it has reached its loop.                   *)

\* A file object is kept alive by the Scans the caller holds (Scan.fd; a
\* Mass and a ScanIterator refer to their Scan).
Referenced(h) == \E s \in scans : s.fd = Some(h)

\* `self.fd = ...` drops the DatFile's reference to its file object; the
\* interpreter closes a file object nothing refers to any more.
Dropped(hs, fd) ==
    IF fd # None /\ ~Referenced(fd[1]) THEN [hs EXCEPT ![fd[1]].open = FALSE] ELSE hs

\* DatFile.Open: a new file object, whatever self.fd was.
Open ==
    /\ handles' = Append(Dropped(handles, dat.fd), [open |-> TRUE, pos |-> 0])
    /\ dat' = [dat EXCEPT !.fd = Some(Len(handles) + 1)]
    /\ result' = Res("Open", 0, "", NoVal)
    /\ calls' = calls + 1
    /\ UNCHANGED <<input, file, scans, iters, dits, dec>>

\* DatFile.Close: None has no close().
Close ==
    /\ IF dat.fd = None
       THEN /\ result' = Res("Close", 0, "AttributeError", NoVal)
            /\ UNCHANGED <<handles, dat>>
       ELSE /\ handles' = [handles EXCEPT ![dat.fd[1]].open = FALSE]
            /\ dat' = [dat EXCEPT !.fd = None]
            /\ result' = Res("Close", 0, "", NoVal)
    /\ calls' = calls + 1
    /\ UNCHANGED <<input, file, scans, iters, dits, dec>>

\* DatFile.GetScan(index)
GetScan(index) ==
    /\ AfterGetScan(GetScanCall(index))
    /\ result' = Res("GetScan", index, GetScanCall(index).exc, GetScanCall(index).val)
    /\ calls' = calls + 1
    /\ UNCHANGED <<input, file, dat, iters, dits, dec>>

\* DatFile.__iter__
DatIter ==
    /\ dits' = Append(dits, [i |-> 0, yielded |-> <<>>])
    /\ result' = Res("DatIter", 0, "", IterVal(Len(dits) + 1))
    /\ calls' = calls + 1
    /\ UNCHANGED <<input, file, dat, handles, scans, iters, dec>>

\* DatFileIterator.__next__ of the k-th iterator
DatNext(k) ==
    /\ IF dits[k].i >= NumScans
       THEN /\ result' = Res("DatNext", k, "StopIteration", NoVal)
            /\ UNCHANGED <<handles, scans, dits>>
       ELSE LET r == GetScanCall(dits[k].i)
            IN  /\ AfterGetScan(r)
                /\ result' = Res("DatNext", k, r.exc, r.val)
                /\ dits' = IF r.exc # "" THEN dits
                           ELSE [dits EXCEPT ![k].i = @ + 1,
                                             ![k].yielded = Append(@, r.val.scan)]
    /\ calls' = calls + 1
    /\ UNCHANGED <<input, file, dat, iters, dec>>

\* Scan.__iter__, that is ScanIterator.__init__(scan, scan.offset)
ScanIter(s) ==
    /\ IF ~CheckOpen(s.fd)
       THEN /\ result' = Res("ScanIter", s.hdr, "NotOpen", NoVal)
            /\ UNCHANGED iters
       ELSE /\ iters' = Append(iters, [scan |-> s, offset |-> s.offset, yielded |-> <<>>,
                                            outcomes |-> <<>>])
            /\ result' = Res("ScanIter", s.hdr, "", IterVal(Len(iters) + 1))
    /\ calls' = calls + 1
    /\ UNCHANGED <<input, file, dat, handles, scans, dits, dec>>

\* Scan.GetMass(offset) up to the loop of the Mass it constructs
GetMassBegin(s, offset, op, arg) ==
    IF ~CheckOpen(s.fd)
    THEN /\ result' = Res(op, arg, "NotOpen", NoVal)
         /\ UNCHANGED <<handles, dec>>
    ELSE MassBegin(s, s.fd, offset, op, arg)

\* Scan.GetMass(offset), called by the user
GetMass(s, offset) ==
    /\ GetMassBegin(s, offset, "GetMass", offset)
    /\ calls' = calls + 1
    /\ UNCHANGED <<input, file, dat, scans, iters, dits>>

\* ScanIterator.__next__ of the k-th iterator
ScanNext(k) ==
    /\ GetMassBegin(iters[k].scan, iters[k].offset, "next", k)
    /\ calls' = calls + 1
    /\ UNCHANGED <<input, file, dat, scans, iters, dits>>

----------------------------------------------------------------------------
(* Calls in any order on one DatFile *)

EOS == <<KEY_EOS, 0>>

\* Two masses and the end of the scan.
GoodStream ==
    << <<KEY_DATA, Data(0, DATA_ANALOG, 0, 5)>>, <<KEY_EOM, 100>>, <<KEY_EOM, 7>>, EOS >>

\* A word with a key the decoder does not know, before a mass.
BadStream == << <<5, 0>>, <<KEY_EOM, 2>>, EOS >>

\* The files, each given by the streams of its scans.
UserFiles == {<<>>, <<GoodStream, BadStream>>}

Fresh(ss, f) ==
    /\ input = ss
    /\ file = f
    /\ dat = DatFile(f)
    /\ handles = <<>>
    /\ scans = {}
    /\ iters = <<>>
    /\ dits = <<>>
    /\ dec = [st |-> "Idle"]
    /\ result = Res("DatFile", 0, "", NoVal)
    /\ calls = 0

Init ==
    /\ \E ss \in UserFiles : LET f == MakeFile(ss) IN Constructible(f) /\ Fresh(ss, f)
    /\ mpc = "user"

\* The user makes a call when no call is in progress.
User == mpc = "user" /\ dec.st # "Reading" /\ calls < MaxCalls /\ mpc' = mpc

UserOpen == User /\ Open

UserClose == User /\ Close

\* Every index from one below the negative range to one above the range.
UserGetScan == User /\ \E index \in (0 - NumScans - 1)..(NumScans + 1) : GetScan(index)

UserDatIter == User /\ DatIter

UserDatNext == User /\ \E k \in DOMAIN dits : DatNext(k)

UserScanIter == User /\ \E s \in scans : ScanIter(s)

UserScanNext == User /\ \E k \in DOMAIN iters : ScanNext(k)

\* At the start of the scan's stream or one word into it.
UserGetMass ==
    User /\ \E s \in scans : \E offset \in {s.offset, s.offset + WordSize} : GetMass(s, offset)

Next ==
    \/ UserOpen
    \/ UserClose
    \/ UserGetScan
    \/ UserDatIter
    \/ UserDatNext
    \/ UserScanIter
    \/ UserScanNext
    \/ UserGetMass
    \/ ReadWord

Spec == Init /\ [][Next]_vars

----------------------------------------------------------------------------
(* main() on one dat file: Open, every scan in turn, every mass of the scan *)
(* in turn, Close.  The rows it writes are not modelled.                    *)

UnknownKeys == (0..15) \ {KEY_EOS, KEY_EOM, KEY_BSCAN, KEY_B, KEY_VOLT, KEY_TIME,
                          KEY_MASS, KEY_DATA}

\* The DATA words: each category, both signs, small and large shifts, and
\* two data types that name no category.
DataKinds ==
    {[flag |-> 0, dataType |-> DATA_ANALOG, exp |-> 0, magnitude |-> 5],
     [flag |-> 1, dataType |-> DATA_ANALOG, exp |-> 0, magnitude |-> 5],
     [flag |-> 8, dataType |-> DATA_PULSE, exp |-> 3, magnitude |-> 6],
     [flag |-> 0, dataType |-> DATA_FARADAY, exp |-> 15, magnitude |-> 65535],
     [flag |-> 0, dataType |-> 2, exp |-> 0, magnitude |-> 5],
     [flag |-> 15, dataType |-> 15, exp |-> 15, magnitude |-> 65535]}

Pack(d) == Data(d.flag, d.dataType, d.exp, d.magnitude)

DataTypes == {DATA_ANALOG, DATA_PULSE, DATA_FARADAY}

\* The words after which the loop reads on, unless an attribute is set
\* twice: payloads 0 and not 0 for the attributes.
ContinuingWords ==
    {<<KEY_EOM, 100>>, <<KEY_EOM, 0>>, <<KEY_BSCAN, 1>>, <<KEY_B, 2>>,
     <<KEY_VOLT, 5>>, <<KEY_VOLT, 7>>, <<KEY_TIME, 0>>, <<KEY_TIME, 7>>,
     <<KEY_MASS, 262144>>, <<KEY_MASS, 3>>}
    \cup {<<KEY_DATA, Pack(d)>> : d \in {k \in DataKinds : k.dataType \in DataTypes}}

\* The words that end the reading of their scan whatever came before.
StoppingWords ==
    {EOS, <<KEY_VOLT, 0>>}
    \cup {<<KEY_DATA, Pack(d)>> : d \in {k \in DataKinds : k.dataType \notin DataTypes}}
    \cup {<<k, 3>> : k \in UnknownKeys}

\* Short streams for the files of several scans: no mass, one mass, a word
\* main() skips the scan for, a word it does not survive.
ShortStreams ==
    {<<EOS>>, << <<KEY_EOM, 100>>, EOS >>, << <<5, 3>> >>, << <<KEY_VOLT, 0>> >>}

\* main() is given the file of these streams.
MainFile(ss) == Constructible(MakeFile(ss)) /\ Fresh(ss, MakeFile(ss))

\* The files: one scan with a stream of at most MaxWords words in which only
\* the last word may be a stopping word (main() reads nothing of a scan
\* after one; a stream without one ends with the file), or up to MaxScans
\* scans with short streams.
InitMain ==
    /\ \/ MainFile(<< <<>> >>)
       \/ \E n \in 0..(MaxWords - 1) : \E p \in [1..n -> ContinuingWords] :
             \E w \in ContinuingWords \cup StoppingWords : MainFile(<<p \o <<w>>>>)
       \/ \E n \in 0..MaxScans : \E ss \in [1..n -> ShortStreams] : MainFile(ss)
    /\ mpc = "Open"

\* dat.Open()
MainOpen == mpc = "Open" /\ Open /\ mpc' = "IterScans"

\* enumerate(dat)
MainIterScans == mpc = "IterScans" /\ DatIter /\ mpc' = "NextScan"

\* for i, scan in scanit: an exception other than StopIteration ends main()
MainNextScan ==
    /\ mpc = "NextScan"
    /\ DatNext(Len(dits))
    /\ mpc' = CASE result'.exc = "" -> "IterMasses"
                [] result'.exc = "StopIteration" -> "Close"
                [] OTHER -> "Crashed"

\* enumerate(scan)
MainIterMasses ==
    /\ mpc = "IterMasses"
    /\ ScanIter(result.val.scan)
    /\ mpc' = IF result'.exc = "" THEN "NextMass" ELSE "Crashed"

\* for j, mass in enumerate(scan): the call of next()
MainNextMass == mpc = "NextMass" /\ ScanNext(Len(iters)) /\ mpc' = "InMass"

\* What main() does with what next() returned or raised: the next mass, the
\* next scan at the end of the scan and after UnknownDataType or UnknownKey;
\* any other exception ends main().
MainBody ==
    /\ mpc = "InMass"
    /\ dec.st # "Reading"
    /\ mpc' = CASE result.exc = "" -> "NextMass"
                [] result.exc \in {"StopIteration", "UnknownDataType", "UnknownKey"} -> "NextScan"
                [] OTHER -> "Crashed"
    /\ UNCHANGED <<input, file, dat, handles, scans, iters, dits, dec, result, calls>>

\* dat.Close()
MainClose == mpc = "Close" /\ Close /\ mpc' = "Done"

NextMain ==
    \/ MainOpen
    \/ MainIterScans
    \/ MainNextScan
    \/ MainIterMasses
    \/ MainNextMass
    \/ ReadWord
    \/ MainBody
    \/ MainClose

SpecMain == InitMain /\ [][NextMain]_vars

----------------------------------------------------------------------------
(* A caller that does not give up: the traversal of main(), except that     *)
(* after next() has ended the iteration or raised, the caller calls next()  *)
(* on the same iterator again, MaxRetries times, before the next scan.      *)

\* How many calls of next() on the iterator `it` did not return a Mass.
Refusals(it) == Cardinality({i \in DOMAIN it.outcomes : it.outcomes[i] # ""})

RetryBody ==
    /\ mpc = "InMass"
    /\ dec.st # "Reading"
    /\ mpc' = IF result.exc = "" \/ Refusals(iters[Len(iters)]) <= MaxRetries
              THEN "NextMass"
              ELSE "NextScan"
    /\ UNCHANGED <<input, file, dat, handles, scans, iters, dits, dec, result, calls>>

NextRetry ==
    \/ MainOpen
    \/ MainIterScans
    \/ MainNextScan
    \/ MainIterMasses
    \/ MainNextMass
    \/ ReadWord
    \/ RetryBody
    \/ MainClose

SpecRetry == InitMain /\ [][NextRetry]_vars

----------------------------------------------------------------------------
(* A caller that, for each scan, either iterates over its masses as main()  *)
(* does or calls GetMass once at an offset that is not the start of a       *)
(* record; the interpreter runs the program on, whatever it is at.          *)

\* Streams for its files: two masses and the end of the scan, a mass and
\* words without an EOM word, words alone; the last two end with no EOS
\* word, at the header of the next scan or at the end of the file.
ProbeStreams ==
    {<< <<KEY_DATA, Pack([flag |-> 0, dataType |-> DATA_ANALOG, exp |-> 0, magnitude |-> 5])>>,
        <<KEY_EOM, 100>>, <<KEY_EOM, 0>>, EOS >>,
     << <<KEY_EOM, 100>>, <<KEY_MASS, 3>>, <<KEY_BSCAN, 1>> >>,
     << <<KEY_TIME, 7>>, <<KEY_B, 2>> >>}

\* Its files: up to MaxScans scans with these streams, or one scan with a
\* stream as in the files of main(), one word shorter.
InitProbe ==
    /\ \/ \E n \in 0..MaxScans : \E ss \in [1..n -> ProbeStreams] : MainFile(ss)
       \/ \E n \in 0..(MaxWords - 2) : \E p \in [1..n -> ContinuingWords] :
             \E w \in ContinuingWords \cup StoppingWords : MainFile(<<p \o <<w>>>>)
    /\ mpc = "Open"

\* One byte into the stream of the scan s, and past the end of the file.
ProbeOffsets(s) == {s.offset + 1, Len(file) + WordSize}

\* scan.GetMass(offset)
MainProbe ==
    /\ mpc = "IterMasses"
    /\ \E offset \in ProbeOffsets(result.val.scan) : GetMass(result.val.scan, offset)
    /\ mpc' = "InProbe"

\* Whatever GetMass returned or raised, the caller goes on to the next scan.
ProbeBody ==
    /\ mpc = "InProbe"
    /\ dec.st # "Reading"
    /\ mpc' = "NextScan"
    /\ UNCHANGED <<input, file, dat, handles, scans, iters, dits, dec, result, calls>>

NextProbe ==
    \/ NextMain
    \/ MainProbe
    \/ ProbeBody

SpecProbe == InitProbe /\ [][NextProbe]_vars /\ WF_vars(NextProbe)

----------------------------------------------------------------------------
(* What the input says.  The properties below compare what the program did *)
(* with the streams the file was written from.                              *)

\* The number of the scan (1, 2, ...) whose header is at s.hdr, and its words.
ScanNo(s) == CHOOSE j \in 1..Len(input) : ScanStart(input, j) = s.hdr
Stream(s) == input[ScanNo(s)]

\* The words of the stream before the byte offset `at` of the file.
WordsBefore(s, at) == (at - (ScanStart(input, ScanNo(s)) + 4 * ScanFields)) \div 4

\* The words the decode run m has read so far.
Consumed(m) == SubSeq(Stream(m.scan), WordsBefore(m.scan, m.offset) + 1,
                      WordsBefore(m.scan, m.pos))

Last(q) == q[Len(q)]

\* How many words of ws have this key.
Count(ws, key) == Cardinality({p \in 1..Len(ws) : ws[p][1] = key})

\* The position in ws of its j-th EOM word; 0 when there is none.
EomAt(ws, j) ==
    IF j = 0 \/ j > Count(ws, KEY_EOM) THEN 0
    ELSE CHOOSE p \in 1..Len(ws) :
            ws[p][1] = KEY_EOM /\ Count(SubSeq(ws, 1, p), KEY_EOM) = j

\* The DATA word w as it was packed, and the value it stands for.
Kind(w) == CHOOSE d \in DataKinds : Pack(d) = w[2]
ExpValue(w) ==
    LET v == Kind(w).magnitude * Pow2(Kind(w).exp)
    IN  IF Kind(w).flag = 0 THEN v ELSE 0 - v

\* The values of the DATA words of ws with this data type, in their order.
ExpValues(ws, dataType) ==
    LET sel == SelectSeq(ws, LAMBDA w : w[1] = KEY_DATA /\ Kind(w).dataType = dataType)
    IN  [i \in 1..Len(sel) |-> ExpValue(sel[i])]

ExpMeasurements(ws) ==
    [analog |-> ExpValues(ws, 0), pulse |-> ExpValues(ws, 1), faraday |-> ExpValues(ws, 8)]

\* The decode run m has ended and main() has not made another call since.
JustEnded(m) == mpc = "InMass" /\ m.st \notin {"Idle", "Reading"}

\* No Mass came of the decode run m: its call returned none and its iterator
\* yielded none for the record.
NoMass(m) ==
    /\ JustEnded(m) => result.val = NoVal
    /\ \A k \in DOMAIN iters : \A i \in DOMAIN iters[k].yielded :
          iters[k].scan = m.scan => iters[k].yielded[i].offset # m.offset

----------------------------------------------------------------------------
(* Properties of the decode loop, under SpecMain *)

\* How many words of ws write the attribute: TIME writes channelTime, EOM
\* writes duration.
Writes(ws, name) ==
    Count(ws, IF name = "channelTime" THEN KEY_TIME ELSE KEY_EOM)

\* C4: a decode run that has read a second TIME word of its record (or a
\* second word writing duration) has ended in Failed with the exception of
\* _SetAttr naming that attribute (MalformedAttribute), whatever payload the
\* first word had, and no Mass came of it.
C4_SetOnce ==
    \A name \in {"channelTime", "duration"} :
        (dec.st # "Idle" /\ Writes(Consumed(dec), name) >= 2) =>
            /\ dec.st = "Failed"
            /\ dec.err = "Exception"
            /\ dec.attr = name
            /\ JustEnded(dec) => result.exc = "Exception"
            /\ NoMass(dec)

\* A run failed on a second TIME word after a first one with payload 0.
C4_Witness ==
    /\ JustEnded(dec)
    /\ Consumed(dec) = << <<KEY_TIME, 0>>, <<KEY_TIME, 7>> >>
    /\ result.exc = "Exception"

\* C5: a decode run whose last word read has a key outside the eight known
\* keys has ended in Failed with UnknownKey carrying that key, whatever words
\* it read before, and no Mass came of it.
C5_UnknownKey ==
    (dec.st # "Idle" /\ Consumed(dec) # <<>>
        /\ Last(Consumed(dec))[1] \in {0, 5, 6, 7, 9, 10, 13, 14}) =>
            /\ dec.st = "Failed"
            /\ dec.err = "UnknownKey"
            /\ dec.code = Some(Last(Consumed(dec))[1])
            /\ JustEnded(dec) => result.exc = "UnknownKey"
            /\ NoMass(dec)

\* A run failed on key 14 after a DATA word and a TIME word.
C5_Witness ==
    /\ JustEnded(dec)
    /\ Len(Consumed(dec)) = 3
    /\ Consumed(dec)[1][1] = KEY_DATA
    /\ Consumed(dec)[2][1] = KEY_TIME
    /\ Last(Consumed(dec))[1] = 14
    /\ result.exc = "UnknownKey"

\* The DATA word w was packed with a data type other than 0, 1 and 8.
BadData(w) == w[1] = KEY_DATA /\ Kind(w).dataType \notin {0, 1, 8}

\* C6: a decode run whose last word read is a DATA word with a data type
\* other than 0, 1 and 8 has ended in Failed with UnknownDataType carrying
\* that data type; its measurement sequences are those of the words before
\* it, and no Mass came of it.
C6_UnknownDataType ==
    (dec.st # "Idle" /\ Consumed(dec) # <<>> /\ BadData(Last(Consumed(dec)))) =>
        /\ dec.st = "Failed"
        /\ dec.err = "UnknownDataType"
        /\ dec.code = Some(Kind(Last(Consumed(dec))).dataType)
        /\ dec.measurements =
              ExpMeasurements(SubSeq(Consumed(dec), 1, Len(Consumed(dec)) - 1))
        /\ JustEnded(dec) => result.exc = "UnknownDataType"
        /\ NoMass(dec)

\* A run failed on data type 15 (flag, exponent and magnitude all ones) after
\* a DATA word that was appended.
C6_Witness ==
    /\ JustEnded(dec)
    /\ Len(Consumed(dec)) = 2
    /\ BadData(Last(Consumed(dec)))
    /\ Kind(Last(Consumed(dec))).dataType = 15
    /\ dec.measurements.pulse = <<0 - 48>>
    /\ result.exc = "UnknownDataType"

\* The words of the record of the Mass v of scan s, its EOM word included.
Record(s, v) ==
    SubSeq(Stream(s), WordsBefore(s, v.offset) + 1, WordsBefore(s, v.offset + v.size))

\* C7: at every point of a decode run each measurement sequence is the list
\* of the values (magnitude shifted left by the exponent, negated when the
\* flag is not 0) of the DATA words of its category read so far, in their
\* order; and so is each sequence of every Mass an iterator yielded, for the
\* DATA words of its record.
C7_Measurements ==
    /\ dec.st # "Idle" => dec.measurements = ExpMeasurements(Consumed(dec))
    /\ \A k \in DOMAIN iters : \A i \in DOMAIN iters[k].yielded :
          iters[k].yielded[i].measurements =
              ExpMeasurements(Record(iters[k].scan, iters[k].yielded[i]))

\* A Mass was yielded whose analog sequence holds +5 then -5, in the order of
\* its two DATA words.
C7_Witness ==
    \E k \in DOMAIN iters : \E i \in DOMAIN iters[k].yielded :
        /\ iters[k].yielded[i].measurements.analog = <<5, 0 - 5>>
        /\ iters[k].yielded[i].measurements.pulse = <<>>

----------------------------------------------------------------------------
(* Properties of the two iterations, under SpecMain *)

\* Where the stream of the scan s starts in the file.
StreamStart(s) == ScanStart(input, ScanNo(s)) + 4 * ScanFields

RECURSIVE SumSizes(_)
SumSizes(ms) == IF ms = <<>> THEN 0 ELSE Head(ms).size + SumSizes(Tail(ms))

\* The i-th Mass the iterator `it` yielded is the i-th record of its stream:
\* it starts after the (i-1)-th EOM word and ends with the i-th.
IsRecord(it, i) ==
    LET ws == Stream(it.scan)
    IN  /\ i <= Count(ws, KEY_EOM)
        /\ it.yielded[i].offset = StreamStart(it.scan) + 4 * EomAt(ws, i - 1)
        /\ it.yielded[i].size = 4 * (EomAt(ws, i) - EomAt(ws, i - 1))

\* C8: a completed Mass has size 4 x the words of its record, from the word
\* at its offset to its EOM word; an iterator that has yielded j masses has
\* its cursor at the start of the stream plus their sizes, which is the
\* offset of the word after the j-th EOM, and each Mass it yielded starts
\* where the one before ended.
C8_Offsets ==
    /\ dec.st = "Completed" =>
          LET ws == Stream(dec.scan)
              a == WordsBefore(dec.scan, dec.offset)
              e == CHOOSE p \in (a + 1)..Len(ws) :
                      ws[p][1] = KEY_EOM /\ \A q \in (a + 1)..(p - 1) : ws[q][1] # KEY_EOM
          IN  dec.size = Some(4 * (e - a))
    /\ \A k \in DOMAIN iters :
          LET it == iters[k]
              j == Len(it.yielded)
          IN  /\ \A i \in 1..j : IsRecord(it, i)
              /\ it.offset = StreamStart(it.scan) + SumSizes(it.yielded)
              /\ it.offset = StreamStart(it.scan) + 4 * EomAt(Stream(it.scan), j)

\* An iterator yielded two masses, of two words and of one.
C8_Witness ==
    \E k \in DOMAIN iters :
        /\ Len(iters[k].yielded) = 2
        /\ iters[k].yielded[1].size = 8
        /\ iters[k].yielded[2].size = 4
        /\ iters[k].offset = StreamStart(iters[k].scan) + 12

\* A word the loop reads on after.
Valid(w) ==
    /\ w[1] \in {KEY_DATA, KEY_MASS, KEY_TIME, KEY_VOLT, KEY_EOM, KEY_B, KEY_BSCAN}
    /\ w[1] = KEY_DATA => Kind(w).dataType \in {0, 1, 8}
    /\ w[1] = KEY_VOLT => w[2] # 0

\* The words ws up to position e are records that each end with an EOM word
\* and words without one, all valid and with at most one TIME word between
\* two EOM words, and the word at e is EOS.
EndsAt(ws, e) ==
    /\ ws[e][1] = KEY_EOS
    /\ \A p \in 1..(e - 1) : Valid(ws[p])
    /\ \A p, q \in 1..(e - 1) :
          (p < q /\ ws[p][1] = KEY_TIME /\ ws[q][1] = KEY_TIME) =>
              \E r \in p..q : ws[r][1] = KEY_EOM

WellFormed(ws) == \E e \in 1..Len(ws) : EndsAt(ws, e)

\* The number of records of a well-formed stream.
Records(ws) == Count(SubSeq(ws, 1, (CHOOSE e \in 1..Len(ws) : EndsAt(ws, e)) - 1), KEY_EOM)

\* C2: over a well-formed stream of k records, words without an EOM and an
\* EOS, the iterator yields the records in stream order, each with the
\* payload of its EOM word as duration, never more than k and never one the
\* stream has no EOM for; next() raises nothing but StopIteration, and raises
\* that when the k were yielded.
C2_WellFormedScan ==
    \A k \in DOMAIN iters :
        LET it == iters[k]
            ws == Stream(it.scan)
        IN  WellFormed(ws) =>
              /\ Len(it.yielded) <= Records(ws)
              /\ \A i \in DOMAIN it.yielded :
                    /\ IsRecord(it, i)
                    /\ it.yielded[i].duration = Some(ws[EomAt(ws, i)][2])
              /\ (result.op = "next" /\ result.arg = k) =>
                    /\ result.exc \in {"Pending", "", "StopIteration"}
                    /\ result.exc = "StopIteration" => Len(it.yielded) = Records(ws)
                    /\ result.exc = "" => result.val = MassVal(Last(it.yielded))

\* The iteration ended after one Mass, over a stream with a word between its
\* last EOM and its EOS.
C2_Witness ==
    \E k \in DOMAIN iters :
        /\ Len(Stream(iters[k].scan)) = 3
        /\ Stream(iters[k].scan)[1][1] = KEY_EOM
        /\ Stream(iters[k].scan)[2][1] = KEY_TIME
        /\ Stream(iters[k].scan)[3][1] = KEY_EOS
        /\ Len(iters[k].yielded) = 1
        /\ result.op = "next" /\ result.arg = k /\ result.exc = "StopIteration"

\* C9: with the DatFile open throughout, the scan iterator yields the scans
\* of the offset table in index order, the j-th decoded from the j-th header
\* of the file; next() raises nothing but StopIteration, and raises that when
\* all N were yielded; with N = 0 no handle ever leaves position 0.
C9_ScanIteration ==
    /\ \A k \in DOMAIN dits :
          /\ dits[k].i = Len(dits[k].yielded)
          /\ dits[k].i <= Len(input)
          /\ \A j \in DOMAIN dits[k].yielded :
                /\ dits[k].yielded[j].hdr = ScanStart(input, j)
                /\ dits[k].yielded[j].number = 10 + j
                /\ dits[k].yielded[j].edac = 1000 + j
                /\ dits[k].yielded[j].offset = ScanStart(input, j) + 188
    /\ result.op = "DatNext" =>
          /\ result.exc \in {"", "StopIteration"}
          /\ result.exc = "StopIteration" => dits[result.arg].i = Len(input)
          /\ result.exc = "" => result.val = ScanVal(Last(dits[result.arg].yielded))
    /\ Len(input) = 0 => \A h \in DOMAIN handles : handles[h].pos = 0

\* The iteration over a file of two scans ended after both.
C9_Witness ==
    /\ Len(input) = 2
    /\ result.op = "DatNext"
    /\ result.exc = "StopIteration"
    /\ Len(dits[result.arg].yielded) = 2

----------------------------------------------------------------------------
(* Properties of the calls a user makes, under Spec *)

\* C3: a call GetScan(i) on an open DatFile of N scans raises IndexError for
\* i >= N, without moving the handle or creating a Scan; for 0 <= i < N it
\* returns the Scan of the header block at the i-th offset of the table, with
\* the number in field 9 of that block and its stream starting 188 bytes on,
\* having read exactly that block.
C3_GetScan ==
    [][(calls' = calls + 1 /\ result'.op = "GetScan" /\ dat.fd # None) =>
          LET i == result'.arg
              at == ScanStart(input, i + 1)
          IN  /\ i >= Len(input) =>
                    /\ result'.exc = "IndexError"
                    /\ result'.val = NoVal
                    /\ handles' = handles
                    /\ scans' = scans
              /\ (0 <= i /\ i < Len(input)) =>
                    /\ result'.exc = ""
                    /\ result'.val.t = "Scan"
                    /\ result'.val.scan.hdr = at
                    /\ result'.val.scan.number = 10 + i + 1
                    /\ result'.val.scan.offset = at + 188
                    /\ handles'[dat.fd[1]].pos = at + 188
                    /\ result'.val.scan \in scans'
      ]_vars

\* GetScan(1) returned the second scan of a file of two.
C3_Witness ==
    /\ result.op = "GetScan"
    /\ result.open
    /\ result.arg = 1
    /\ result.exc = ""
    /\ result.val.scan.number = 12

\* The calls that read a scan or a mass; a scan iterator that is exhausted
\* attempts no read.
ReadCall ==
    /\ result.op \in {"GetScan", "DatNext", "ScanIter", "next", "GetMass"}
    /\ ~(result.op = "DatNext" /\ result.exc = "StopIteration")

\* C1: every scan-level or mass-level read made while the DatFile is not open
\* raises NotOpen.
C1_NotOpen == (ReadCall /\ ~result.open) => result.exc = "NotOpen"

\* The file objects open() returned that nothing has closed.
OpenHandles == {h \in DOMAIN handles : handles[h].open}

\* C10: the DatFile holds exactly one unreleased read handle while it is open
\* and none while it is closed.
C10_OneHandle == Cardinality(OpenHandles) = IF dat.fd # None THEN 1 ELSE 0

\* C11: a mass read made through a Scan goes through the file object the
\* DatFile holds at the time of the read, so that with the DatFile open a
\* read through a Scan of an earlier session does not fail on a closed file.
C11_CurrentHandle ==
    /\ dec.st = "Reading" => Some(dec.fd) = dat.fd
    /\ (result.op \in {"next", "GetMass"} /\ result.open) => result.exc # "ValueError"

----------------------------------------------------------------------------
(* Properties of the failures, under SpecMain *)

\* The exceptions the taxonomy names: UnknownKey, UnknownDataType, the
\* Exception of _SetAttr (MalformedAttribute) and struct.error (Truncated);
\* NotOpen is raised before the decode loop is reached.
Taxonomy == {"NotOpen", "UnknownKey", "UnknownDataType", "Exception", "struct.error"}

\* C12: a decode run that ends in Failed carries an error of the taxonomy.
C12_Taxonomy == dec.st = "Failed" => dec.err \in Taxonomy

----------------------------------------------------------------------------
(* Properties of an iterator that is called again, under SpecRetry *)

\* How many of the first n calls of next() on `it` returned a Mass.
Returned(it, n) == Cardinality({i \in 1..n : it.outcomes[i] = ""})

\* The cursor of `it` is where it was after the first n calls of next(): it
\* has yielded no Mass since, and is at the start of the stream plus the
\* sizes of the masses yielded.
StayedSince(it, n) ==
    /\ Len(it.yielded) = Returned(it, n)
    /\ it.offset = StreamStart(it.scan) + SumSizes(it.yielded)

\* C13: once next() on an iterator has raised StopIteration, every later
\* next() on it that reads the file raises StopIteration too, no Mass is
\* yielded and the cursor stays; EOS itself never reaches the caller.
C13_EndStays ==
    /\ result.exc # "EOS"
    /\ JustEnded(dec) /\ dec.st = "EndOfScan" =>
          result.exc = "StopIteration" /\ result.val = NoVal
    /\ \A k \in DOMAIN iters : \A i \in DOMAIN iters[k].outcomes :
          iters[k].outcomes[i] = "StopIteration" =>
              /\ \A j \in i..Len(iters[k].outcomes) :
                    iters[k].outcomes[j] = "StopIteration"
              /\ StayedSince(iters[k], i)

\* An iterator yielded a Mass and then ended the iteration three times.
C13_Witness ==
    \E k \in DOMAIN iters :
        iters[k].outcomes = <<"", "StopIteration", "StopIteration", "StopIteration">>

\* C14: a next() whose decode run ends in Failed raises the error of the run
\* and returns no Mass; the cursor stays, so that every later next() on the
\* iterator that reads the file raises the same error and every Mass it has
\* yielded lies before the record that failed.
C14_FailureStays ==
    /\ JustEnded(dec) /\ dec.st = "Failed" =>
          /\ result.exc = dec.err
          /\ result.val = NoVal
          /\ Last(iters[dec.ctx.k].outcomes) = dec.err
    /\ \A k \in DOMAIN iters : \A i \in DOMAIN iters[k].outcomes :
          iters[k].outcomes[i] \notin {"", "StopIteration"} =>
              /\ \A j \in i..Len(iters[k].outcomes) :
                    iters[k].outcomes[j] = iters[k].outcomes[i]
              /\ StayedSince(iters[k], i)
              /\ \A y \in DOMAIN iters[k].yielded :
                    iters[k].yielded[y].offset + iters[k].yielded[y].size <= iters[k].offset

\* An iterator failed three times on the second TIME word of a record whose
\* EOM word comes after it.
C14_Witness ==
    \E k \in DOMAIN iters :
        /\ iters[k].outcomes = <<"Exception", "Exception", "Exception">>
        /\ iters[k].yielded = <<>>
        /\ Len(Stream(iters[k].scan)) = 3
        /\ Stream(iters[k].scan)[3][1] = KEY_EOM

----------------------------------------------------------------------------
(* Properties of the attributes, under SpecMain *)

\* The payload of the last word of ws with this key, None when it has none.
LastPayload(ws, key) ==
    IF Count(ws, key) = 0 THEN None
    ELSE Some(ws[CHOOSE p \in 1..Len(ws) :
                    ws[p][1] = key /\ \A q \in (p + 1)..Len(ws) : ws[q][1] # key][2])

\* magnetMass and acceleratingVoltage as the words ws of a scan with this
\* EDAC leave them: the last MASS word and the last VOLT word decide.
ExpMagnetMass(ws) ==
    IF LastPayload(ws, KEY_MASS) = None THEN None
    ELSE Some([whole |-> LastPayload(ws, KEY_MASS)[1] \div 262144,
               frac |-> LastPayload(ws, KEY_MASS)[1] % 262144])

ExpVoltage(ws, edac) ==
    IF LastPayload(ws, KEY_VOLT) = None THEN None
    ELSE Some([num |-> edac * 1000, den |-> LastPayload(ws, KEY_VOLT)[1], shift |-> 18])

\* C15: a decode run never fails at a MASS word, and fails at a VOLT word
\* only by the division by a payload of 0, however many MASS and VOLT words
\* it has read: _SetAttr raises for channelTime alone.  While the run goes on
\* and when it has completed, and in every Mass yielded, magnetMass and
\* acceleratingVoltage are those of the last MASS and the last VOLT word of
\* the record.  A run that has read a second TIME word has failed.
C15_LastWriteWins ==
    /\ dec.st = "Failed" /\ dec.err # "struct.error" =>
          /\ Last(Consumed(dec))[1] # KEY_MASS
          /\ Last(Consumed(dec))[1] = KEY_VOLT => Last(Consumed(dec))[2] = 0
          /\ dec.err = "Exception" => dec.attr = "channelTime"
    /\ dec.st \in {"Reading", "Completed"} =>
          /\ dec.magnetMass = ExpMagnetMass(Consumed(dec))
          /\ dec.acceleratingVoltage =
                ExpVoltage(Consumed(dec), 1000 + ScanNo(dec.scan))
    /\ (dec.st # "Idle" /\ Count(Consumed(dec), KEY_TIME) >= 2) =>
          dec.st = "Failed" /\ dec.err = "Exception"
    /\ \A k \in DOMAIN iters : \A i \in DOMAIN iters[k].yielded :
          LET ws == Record(iters[k].scan, iters[k].yielded[i])
          IN  /\ iters[k].yielded[i].magnetMass = ExpMagnetMass(ws)
              /\ iters[k].yielded[i].acceleratingVoltage =
                    ExpVoltage(ws, 1000 + ScanNo(iters[k].scan))

\* A Mass was yielded for a record of two MASS words, with the magnetMass of
\* the second.
C15_Witness ==
    \E k \in DOMAIN iters :
        /\ Stream(iters[k].scan) = << <<KEY_MASS, 262144>>, <<KEY_MASS, 3>>, <<KEY_EOM, 100>> >>
        /\ Len(iters[k].yielded) = 1
        /\ iters[k].yielded[1].magnetMass = Some([whole |-> 0, frac |-> 3])

\* The words ws without their BSCAN and B words.
Strip(ws) == SelectSeq(ws, LAMBDA w : w[1] \notin {KEY_BSCAN, KEY_B})

\* The attributes and measurement sequences of a Mass or of a decode run.
Attrs(m) ==
    [magnetMass |-> m.magnetMass, acceleratingVoltage |-> m.acceleratingVoltage,
     channelTime |-> m.channelTime, duration |-> m.duration,
     measurements |-> m.measurements]

\* What the words ws of a scan with this EDAC make of them, when no
\* attribute is set twice.
ExpAttrs(ws, edac) ==
    [magnetMass |-> ExpMagnetMass(ws), acceleratingVoltage |-> ExpVoltage(ws, edac),
     channelTime |-> LastPayload(ws, KEY_TIME), duration |-> LastPayload(ws, KEY_EOM),
     measurements |-> ExpMeasurements(ws)]

\* C16: a decode run does not fail at a BSCAN or B word, and its attributes
\* and measurement sequences are at every point those of the words read
\* without the BSCAN and B words among them; a Mass yielded for a record has
\* the attributes and sequences of the record without its BSCAN and B words,
\* and as size 4 bytes for each word of it and for each of these.
C16_NoEffect ==
    /\ dec.st = "Failed" /\ dec.err # "struct.error" =>
          Last(Consumed(dec))[1] \notin {KEY_BSCAN, KEY_B}
    /\ dec.st \in {"Reading", "Completed"} =>
          Attrs(dec) = ExpAttrs(Strip(Consumed(dec)), 1000 + ScanNo(dec.scan))
    /\ \A k \in DOMAIN iters : \A i \in DOMAIN iters[k].yielded :
          LET ws == Record(iters[k].scan, iters[k].yielded[i])
          IN  /\ Attrs(iters[k].yielded[i]) =
                    ExpAttrs(Strip(ws), 1000 + ScanNo(iters[k].scan))
              /\ iters[k].yielded[i].size =
                    4 * Len(Strip(ws)) + 4 * (Count(ws, KEY_BSCAN) + Count(ws, KEY_B))

\* A Mass was yielded for a record with a BSCAN word between its TIME word
\* and its EOM word: channelTime 7, duration 100, 12 bytes.
C16_Witness ==
    \E k \in DOMAIN iters :
        /\ Stream(iters[k].scan) = << <<KEY_TIME, 7>>, <<KEY_BSCAN, 1>>, <<KEY_EOM, 100>> >>
        /\ Len(iters[k].yielded) = 1
        /\ iters[k].yielded[1].channelTime = Some(7)
        /\ iters[k].yielded[1].duration = Some(100)
        /\ iters[k].yielded[1].size = 12

\* The payloads of the TIME words of ws.
TimePayloads(ws) == {ws[p][2] : p \in {q \in 1..Len(ws) : ws[q][1] = KEY_TIME}}

\* duration and channelTime of a Mass decoded from the record ws: the
\* payload of its EOM word, which is its last word and its only EOM word,
\* and the payload of its one TIME word if it has one.
Timed(m, ws) ==
    /\ Count(ws, KEY_EOM) = 1
    /\ Last(ws)[1] = KEY_EOM
    /\ m.duration = Some(Last(ws)[2])
    /\ Count(ws, KEY_TIME) <= 1
    /\ m.channelTime = None <=> Count(ws, KEY_TIME) = 0
    /\ m.channelTime # None => TimePayloads(ws) = {m.channelTime[1]}

\* C19: in a completed Mass, and in every Mass yielded, duration is the
\* payload of the EOM word of the record and channelTime is unset or the
\* payload of the one TIME word of the record; duration is unset as long as
\* the run reads on, and _SetAttr never raises for duration.
C19_Duration ==
    /\ dec.st = "Completed" => Timed(dec, Consumed(dec))
    /\ dec.st = "Reading" => dec.duration = None /\ Count(Consumed(dec), KEY_EOM) = 0
    /\ dec.st = "Failed" => dec.attr # "duration"
    /\ \A k \in DOMAIN iters : \A i \in DOMAIN iters[k].yielded :
          Timed(iters[k].yielded[i], Record(iters[k].scan, iters[k].yielded[i]))

\* Two masses were yielded, the first with channelTime 0 and duration 0, the
\* second without channelTime and with duration 100.
C19_Witness ==
    \E k \in DOMAIN iters :
        /\ Len(iters[k].yielded) = 2
        /\ iters[k].yielded[1].channelTime = Some(0)
        /\ iters[k].yielded[1].duration = Some(0)
        /\ iters[k].yielded[2].channelTime = None
        /\ iters[k].yielded[2].duration = Some(100)

----------------------------------------------------------------------------
(* Termination, under SpecProbe *)

\* C17: a decode run that reads on has read one more word of the file, and
\* one that finds fewer than four bytes left fails with struct.error; every
\* run ends in Completed, EndOfScan or Failed; a completed Mass has a size
\* of 4 or more, so that the cursor of an iterator has moved on whenever it
\* has yielded another Mass; and the iterations over the scans of the file
\* end, with main() done or ended by an exception.
C17_Termination ==
    /\ [][(dec.st = "Reading" /\ dec' # dec) =>
             /\ dec'.st = "Reading" =>
                   dec'.pos = dec.pos + WordSize /\ dec'.pos <= Len(file)
             /\ dec.pos + WordSize > Len(file) =>
                   dec'.st = "Failed" /\ dec'.err = "struct.error"
             /\ dec'.st = "Completed" => dec'.size[1] >= WordSize
         ]_vars
    /\ [][\A k \in DOMAIN iters :
             Len(iters'[k].yielded) > Len(iters[k].yielded) =>
                 iters'[k].offset > iters[k].offset
         ]_vars
    /\ (dec.st = "Reading") ~> (dec.st \in {"Completed", "EndOfScan", "Failed"})
    /\ <>(mpc \in {"Done", "Crashed"})

\* A decode run of an iterator failed at the end of the file, having read
\* two words of a stream that has no EOM and no EOS word.
C17_Witness ==
    /\ mpc = "InMass"
    /\ dec.st = "Failed"
    /\ dec.err = "struct.error"
    /\ dec.pos = Len(file)
    /\ dec.pos = dec.offset + 2 * WordSize

----------------------------------------------------------------------------
(* Properties of iterators used in turn, under Spec *)

\* What next() raises ("" when it returns a Mass) when the words of ws from
\* position p on are decoded on their own; time tells that a TIME word of
\* the record was read.
RECURSIVE Alone(_, _, _)
Alone(ws, p, time) ==
    IF p > Len(ws) THEN "struct.error"
    ELSE CASE ws[p][1] = KEY_EOS -> "StopIteration"
           [] ws[p][1] = KEY_EOM -> ""
           [] ws[p][1] = KEY_TIME ->
                 IF time THEN "Exception" ELSE Alone(ws, p + 1, TRUE)
           [] ws[p][1] = KEY_VOLT ->
                 IF ws[p][2] = 0 THEN "ZeroDivisionError" ELSE Alone(ws, p + 1, time)
           [] ws[p][1] = KEY_DATA ->
                 IF BadData(ws[p]) THEN "UnknownDataType" ELSE Alone(ws, p + 1, time)
           [] ws[p][1] \in {KEY_MASS, KEY_BSCAN, KEY_B} -> Alone(ws, p + 1, time)
           [] OTHER -> "UnknownKey"

\* C18: whatever calls were made on other iterators and scans in between,
\* the n-th decode run of an iterator ended as the decoding of its stream on
\* its own ends after the masses returned before, each Mass it yielded is
\* the record of that rank of its stream, and its cursor is behind the last
\* of them - at the start of the stream for an iterator that has yielded
\* none; a decode run reads at its own position.
C18_NoInterference ==
    /\ dec.st = "Reading" => handles[dec.fd].pos = dec.pos
    /\ \A k \in DOMAIN iters :
          LET it == iters[k]
              ws == Stream(it.scan)
          IN  /\ \A n \in DOMAIN it.outcomes :
                    it.outcomes[n] = Alone(ws, EomAt(ws, Returned(it, n - 1)) + 1, FALSE)
              /\ Len(it.yielded) = Returned(it, Len(it.outcomes))
              /\ \A i \in DOMAIN it.yielded :
                    /\ IsRecord(it, i)
                    /\ Attrs(it.yielded[i]) =
                          ExpAttrs(Record(it.scan, it.yielded[i]), 1000 + ScanNo(it.scan))
              /\ it.offset = it.scan.offset + 4 * EomAt(ws, Len(it.yielded))

\* Two iterators over one scan: the first has yielded the two masses of the
\* scan, the second of them after the other iterator had yielded the first.
C18_Witness ==
    /\ Len(iters) = 2
    /\ iters[1].scan = iters[2].scan
    /\ iters[1].outcomes = <<"", "">>
    /\ iters[2].outcomes = <<"">>
    /\ iters[1].yielded[2].offset = iters[2].yielded[1].offset + iters[2].yielded[1].size
    /\ result.op = "next" /\ result.arg = 1 /\ result.exc = ""

====
